---- MODULE Spec2Model ----
(***************************************************************************)
(* ET/AET polygon scanline fill of the computer-graphics assignments:      *)
(* GLCanvas.build_edge_table and GLCanvas.compute_scanline_spans           *)
(* (src/trab1.py, duplicated in src/trabalho_1/GlCanvas.py).               *)
(*                                                                         *)
(* Numbers.  The code computes with Python floats.  The model computes     *)
(* with exact rationals [n, d] in lowest terms (d > 0); vertex x values    *)
(* are whole pixels and vertex y values are multiples of half a pixel, so  *)
(* that round() meets non-integers and ties.  Python's round() is          *)
(* round-half-to-even and is modelled as such.                             *)
(***************************************************************************)
EXTENDS Integers, Sequences, FiniteSets, TLC

\* a call of compute_scanline_spans: its arguments, its locals, its position
VARIABLES vertices, height, pc, raised, ET, AET, spans, y, first, calls

\* the GLCanvas widget: its fields and its size in pixels
VARIABLES points, closed, filled_spans, show_vertices, canvas, stroke_width, fill_color

\* the 3D viewer: the object selected in the scene, the animation flag, the
\* QTimer (running or not, and how many times its timeout signal is connected
\* to start_animation), the rotation about the Y axis, what paintGL did last
VARIABLES current_object, animate, timer_active, connections, rotation_y, paint

\* the orbital camera of the 3D viewer (scene.camera: distance, angle_x,
\* angle_y), the widget's projection type and comparison flag, and whether a
\* drag is under way (last_pos)
VARIABLES camera, projection_type, comparison_mode, last_pos

\* the globals of the standalone script src/preenche.py
VARIABLES current_polygon, polygons, drawing_mode, line_thickness, preenche_fill_color

\* the name of the handler that ran last
VARIABLE event

fillVars == <<vertices, height, pc, raised, ET, AET, spans, y, first, calls>>

canvasVars ==
    <<points, closed, filled_spans, show_vertices, canvas, stroke_width, fill_color>>

viewerVars == <<current_object, animate, timer_active, connections, rotation_y, paint>>

cameraVars == <<camera, projection_type, comparison_mode, last_pos>>

preencheVars ==
    <<current_polygon, polygons, drawing_mode, line_thickness, preenche_fill_color>>

vars == <<fillVars, canvasVars, viewerVars, cameraVars, preencheVars, event>>

(***************************************************************************)
(* Bounds of the model.                                                    *)
(***************************************************************************)
MaxVerts == 3
MaxHeight == 1
MaxCalls == 3
MaxPoints == 4
MaxConnections == 3

MaxTurns == 2

MaxStored == 4

\* vertices reach one pixel above and one pixel below the largest viewport
MaxY == MaxHeight + 1

Xs == {0, 1}

(***************************************************************************)
(* Exact rational arithmetic standing for Python float arithmetic.         *)
(***************************************************************************)
Abs(a) == IF a < 0 THEN 0 - a ELSE a

RECURSIVE GCD(_, _)
GCD(a, b) == IF b = 0 THEN a ELSE GCD(b, a % b)

Rat(n, d) ==
    LET g == GCD(Abs(n), d)
    IN  [n |-> n \div g, d |-> d \div g]

RInt(k) == [n |-> k, d |-> 1]

RAdd(a, b) == Rat(a.n * b.d + b.n * a.d, a.d * b.d)

RSub(a, b) == Rat(a.n * b.d - b.n * a.d, a.d * b.d)

RMul(a, b) == Rat(a.n * b.n, a.d * b.d)

\* a / b for b # 0 (the caller tests b first, as Python raises on b = 0)
RDiv(a, b) ==
    IF b.n > 0 THEN Rat(a.n * b.d, a.d * b.n)
               ELSE Rat(0 - (a.n * b.d), a.d * (0 - b.n))

RLess(a, b) == a.n * b.d < b.n * a.d

RLeq(a, b) == a.n * b.d <= b.n * a.d

RMin(a, b) == IF RLess(b, a) THEN b ELSE a

RMax(a, b) == IF RLess(a, b) THEN b ELSE a

\* Python 3 round(): nearest integer, ties to the even neighbour.
Round(a) ==
    LET q == a.n \div a.d
        r == a.n - q * a.d
    IN  IF 2 * r < a.d THEN q
        ELSE IF 2 * r > a.d THEN q + 1
        ELSE IF q % 2 = 0 THEN q ELSE q + 1

IMin(a, b) == IF b < a THEN b ELSE a

IMax(a, b) == IF a < b THEN b ELSE a

(***************************************************************************)
(* Python lists.                                                           *)
(***************************************************************************)
\* list[i] is defined for -len <= i < len
PyIndexOK(list, i) == (0 - Len(list)) <= i /\ i < Len(list)

PyPos(list, i) == IF i >= 0 THEN i + 1 ELSE Len(list) + i + 1

\* variant: the loop runs one scanline too far
InRangeOneMore(yy, h) == yy <= h + 1

\* range(0, height + 1) still has an element y
InRange(yy, h) == yy < h + 1

(***************************************************************************)
(* build_edge_table                                                        *)
(***************************************************************************)
\* [[] for _ in range(height + 1)]
NewET(h) == [k \in 1..(h + 1) |-> <<>>]

\* variant: the horizontal-edge test is left out
IsHorizontalNever(y1, y2) == FALSE

IsHorizontal(y1, y2) == Round(y1) = Round(y2)

\* variant: the else branch keeps dx = x2 - x1
OrientedSameDx(v1, v2) ==
    IF RLess(v1[2], v2[2])
    THEN [ymin |-> v1[2], ymax |-> v2[2], x_at_ymin |-> v1[1],
          dy |-> RSub(v2[2], v1[2]), dx |-> RSub(v2[1], v1[1])]
    ELSE [ymin |-> v2[2], ymax |-> v1[2], x_at_ymin |-> v2[1],
          dy |-> RSub(v1[2], v2[2]), dx |-> RSub(v2[1], v1[1])]

\* variant: the else branch keeps x_at_ymin = x1
OrientedKeepX1(v1, v2) ==
    IF RLess(v1[2], v2[2])
    THEN [ymin |-> v1[2], ymax |-> v2[2], x_at_ymin |-> v1[1],
          dy |-> RSub(v2[2], v1[2]), dx |-> RSub(v2[1], v1[1])]
    ELSE [ymin |-> v2[2], ymax |-> v1[2], x_at_ymin |-> v1[1],
          dy |-> RSub(v1[2], v2[2]), dx |-> RSub(v1[1], v2[1])]

\* the if/else that orders the two endpoints by y
Oriented(v1, v2) ==
    IF RLess(v1[2], v2[2])
    THEN [ymin |-> v1[2], ymax |-> v2[2], x_at_ymin |-> v1[1],
          dy |-> RSub(v2[2], v1[2]), dx |-> RSub(v2[1], v1[1])]
    ELSE [ymin |-> v2[2], ymax |-> v1[2], x_at_ymin |-> v2[1],
          dy |-> RSub(v1[2], v2[2]), dx |-> RSub(v1[1], v2[1])]

YStart(ymin, h) == IMax(0, Round(RMin(ymin, RInt(h))))

\* variant: ymax taken as inclusive (no "- 1")
YEndInclusive(ymax, h) == IMin(h, Round(RMax(RInt(0), ymax)))

YEnd(ymax, h) == IMin(h, Round(RSub(RMax(RInt(0), ymax), RInt(1))))

\* variant: x is taken at ymin, whatever the first scanline
XIntUnclipped(o, inv_slope, y_start) == o.x_at_ymin

XInt(o, inv_slope, y_start) ==
    IF o.dy.n # 0
    THEN RAdd(o.x_at_ymin, RMul(inv_slope, RSub(RInt(y_start), o.ymin)))
    ELSE o.x_at_ymin

InsertGuard(y_start, y_end, h) ==
    0 <= y_start /\ y_start <= h /\ y_start <= y_end

\* variant: the edge is appended to every bucket of y_start..y_end
EdgeStepEveryBucket(verts, h, table, i) ==
    LET n  == Len(verts)
        v1 == verts[i]
        v2 == verts[(i % n) + 1]
    IN  IF IsHorizontal(v1[2], v2[2])
        THEN [ET |-> table, raised |-> "none"]
        ELSE LET o == Oriented(v1, v2)
             IN  IF o.dy.n = 0
                 THEN [ET |-> table, raised |-> "ZeroDivisionError"]
                 ELSE LET inv_slope == RDiv(o.dx, o.dy)
                          y_start   == YStart(o.ymin, h)
                          y_end     == YEnd(o.ymax, h)
                          x_int     == XInt(o, inv_slope, y_start)
                          e         == [ymax |-> y_end, x |-> x_int,
                                        inv_slope |-> inv_slope]
                      IN  IF ~InsertGuard(y_start, y_end, h)
                          THEN [ET |-> table, raised |-> "none"]
                          ELSE [ET |-> [k \in 1..Len(table) |->
                                          IF y_start + 1 <= k /\ k <= y_end + 1
                                          THEN Append(table[k], e) ELSE table[k]],
                                raised |-> "none"]

\* One iteration of "for i in range(n)" (i counted from 1 here); the value
\* is the table after the iteration and the exception raised, if any.
EdgeStep(verts, h, table, i) ==
    LET n  == Len(verts)
        v1 == verts[i]
        v2 == verts[(i % n) + 1]
    IN  IF IsHorizontal(v1[2], v2[2])
        THEN [ET |-> table, raised |-> "none"]
        ELSE LET o == Oriented(v1, v2)
             IN  IF o.dy.n = 0
                 THEN [ET |-> table, raised |-> "ZeroDivisionError"]
                 ELSE LET inv_slope == RDiv(o.dx, o.dy)
                          y_start   == YStart(o.ymin, h)
                          y_end     == YEnd(o.ymax, h)
                          x_int     == XInt(o, inv_slope, y_start)
                          e         == [ymax |-> y_end, x |-> x_int,
                                        inv_slope |-> inv_slope]
                      IN  IF ~InsertGuard(y_start, y_end, h)
                          THEN [ET |-> table, raised |-> "none"]
                          ELSE IF ~PyIndexOK(table, y_start)
                          THEN [ET |-> table, raised |-> "IndexError"]
                          ELSE [ET |-> [table EXCEPT ![PyPos(table, y_start)]
                                           = Append(@, e)],
                                raised |-> "none"]

RECURSIVE EdgeLoop(_, _, _, _)
EdgeLoop(verts, h, table, i) ==
    IF i > Len(verts)
    THEN [ET |-> table, raised |-> "none"]
    ELSE LET r == EdgeStep(verts, h, table, i)
         IN  IF r.raised # "none" THEN r
             ELSE EdgeLoop(verts, h, r.ET, i + 1)

build_edge_table(verts, h) == EdgeLoop(verts, h, NewET(h), 1)

(***************************************************************************)
(* compute_scanline_spans: the body of "for y in range(0, height + 1)"     *)
(***************************************************************************)
\* for e in ET[y]: AET.append(e)
Activate(aet, bucket) == aet \o bucket

\* variant: no edge ever leaves the AET
AliveAlways(e, yy) == TRUE

\* AET = [e for e in AET if y <= e.ymax]
Alive(e, yy) == yy <= e.ymax

Deactivate(aet, yy) == SelectSeq(aet, LAMBDA e : Alive(e, yy))

\* key=lambda e: (e.x, e.inv_slope), compared as Python tuples
KeyLess(a, b) ==
    \/ RLess(a.x, b.x)
    \/ a.x = b.x /\ RLess(a.inv_slope, b.inv_slope)

\* e goes behind every element whose key is not greater (the sort is stable)
InsertSorted(sorted, e) ==
    LET keep == {k \in 1..Len(sorted) : ~KeyLess(e, sorted[k])}
        p    == IF keep = {} THEN 0 ELSE CHOOSE k \in keep : \A j \in keep : j <= k
    IN  SubSeq(sorted, 1, p) \o <<e>> \o SubSeq(sorted, p + 1, Len(sorted))

RECURSIVE SortAET(_)
SortAET(aet) ==
    IF aet = <<>> THEN <<>>
    ELSE InsertSorted(SortAET(SubSeq(aet, 1, Len(aet) - 1)), aet[Len(aet)])

\* e1 = next(it); e2 = next(it); swap when x_left > x_right
MakePair(e1, e2) ==
    IF RLess(e2.x, e1.x) THEN <<e2.x, e1.x>> ELSE <<e1.x, e2.x>>

\* variant: every edge is paired with its right neighbour
PairsSliding(aet) == [k \in 1..(Len(aet) - 1) |-> MakePair(aet[k], aet[k + 1])]

\* the while loop over the iterator; an odd trailing edge ends it
Pairs(aet) == [k \in 1..(Len(aet) \div 2) |-> MakePair(aet[2 * k - 1], aet[2 * k])]

Eps == Rat(1, 1000000)

\* variant: every pair is emitted
SpanAny(x_left, x_right) == TRUE

\* if x_right - x_left > 1e-6
SpanWide(x_left, x_right) == RLess(Eps, RSub(x_right, x_left))

\* variant: spans.insert(0, ...)
PrependSpan(list, s) == <<s>> \o list

\* spans.append((y, x_left, x_right))
AppendSpan(list, s) == Append(list, s)

RECURSIVE EmitSpans(_, _, _, _)
EmitSpans(list, yy, pairs, k) ==
    IF k > Len(pairs) THEN list
    ELSE EmitSpans(IF SpanWide(pairs[k][1], pairs[k][2])
                   THEN AppendSpan(list, <<yy, pairs[k][1], pairs[k][2]>>)
                   ELSE list,
                   yy, pairs, k + 1)

\* for e in AET: e.x += e.inv_slope
Advance(aet) == [k \in 1..Len(aet) |-> [aet[k] EXCEPT !.x = RAdd(@, aet[k].inv_slope)]]

\* variant: the AET outlives the call (a module-level list)
StaleAET(old) == old

\* the locals a call starts with: AET = [], spans = []
FreshAET(old) == <<>>

FreshSpans(old) == <<>>

\* the loop body for scanline yy: activate, deactivate, sort, pair, emit, advance
ScanlineBody(table, aet, list, yy) ==
    IF ~PyIndexOK(table, yy)
    THEN [AET |-> aet, spans |-> list, raised |-> "IndexError"]
    ELSE LET sorted == SortAET(Deactivate(Activate(aet, table[PyPos(table, yy)]), yy))
         IN  [AET |-> Advance(sorted),
              spans |-> EmitSpans(list, yy, Pairs(sorted), 1),
              raised |-> "none"]

RECURSIVE SweepFrom(_, _, _, _, _)
SweepFrom(table, aet, list, yy, h) ==
    IF ~InRange(yy, h)
    THEN [spans |-> list, raised |-> "none"]
    ELSE LET r == ScanlineBody(table, aet, list, yy)
         IN  IF r.raised # "none"
             THEN [spans |-> list, raised |-> r.raised]
             ELSE SweepFrom(table, r.AET, r.spans, yy + 1, h)

\* the whole call, as a function of its arguments
compute_scanline_spans(verts, h) ==
    LET b == build_edge_table(verts, h)
    IN  IF b.raised # "none"
        THEN [spans |-> <<>>, raised |-> b.raised]
        ELSE SweepFrom(b.ET, FreshAET(<<>>), FreshSpans(<<>>), 0, h)

(***************************************************************************)
(* The copy of the fill algorithm in src/trabalho_1/GlCanvas.py, translated *)
(* from that file; Python's round, int, min, max, list indexing and         *)
(* list.sort are the operators above.                                       *)
(***************************************************************************)
\* variant: the copy keeps an edge on the scanline of its ymax + 1
GlCanvas_filter_late(aet, yy) == SelectSeq(aet, LAMBDA e : yy <= e.ymax + 1)

\* AET = [e for e in AET if y <= e.ymax]
GlCanvas_filter(aet, yy) == SelectSeq(aet, LAMBDA e : yy <= e.ymax)

\* the body of "for i in range(n)" for the side that starts at vertex i
GlCanvas_side(verts, h, i) ==
    LET x1 == verts[i][1]
        y1 == verts[i][2]
        x2 == verts[(i % Len(verts)) + 1][1]
        y2 == verts[(i % Len(verts)) + 1][2]
        up == RLess(y1, y2)
        ymin == IF up THEN y1 ELSE y2
        ymax == IF up THEN y2 ELSE y1
        x_at_ymin == IF up THEN x1 ELSE x2
        dy == IF up THEN RSub(y2, y1) ELSE RSub(y1, y2)
        dx == IF up THEN RSub(x2, x1) ELSE RSub(x1, x2)
    IN  IF Round(y1) = Round(y2) THEN [kind |-> "continue"]
        ELSE IF dy.n = 0 THEN [kind |-> "ZeroDivisionError"]
        ELSE LET inv_slope == RDiv(dx, dy)
                 y_start == IMax(0, Round(RMin(ymin, RInt(h))))
                 y_end == IMin(h, Round(RSub(RMax(RInt(0), ymax), RInt(1))))
                 y_offset == RSub(RInt(y_start), ymin)
                 x_int == IF dy.n # 0 THEN RAdd(x_at_ymin, RMul(inv_slope, y_offset))
                          ELSE x_at_ymin
             IN  IF 0 <= y_start /\ y_start <= h /\ y_start <= y_end
                 THEN [kind |-> "append", y_start |-> y_start,
                       edge |-> [ymax |-> y_end, x |-> x_int, inv_slope |-> inv_slope]]
                 ELSE [kind |-> "continue"]

RECURSIVE GlCanvas_edge_loop(_, _, _, _)
GlCanvas_edge_loop(verts, h, table, i) ==
    IF i > Len(verts) THEN [ET |-> table, raised |-> "none"]
    ELSE LET r == GlCanvas_side(verts, h, i)
         IN  IF r.kind = "continue" THEN GlCanvas_edge_loop(verts, h, table, i + 1)
             ELSE IF r.kind = "ZeroDivisionError"
             THEN [ET |-> table, raised |-> "ZeroDivisionError"]
             ELSE IF ~PyIndexOK(table, r.y_start)
             THEN [ET |-> table, raised |-> "IndexError"]
             ELSE GlCanvas_edge_loop(verts, h,
                      [table EXCEPT ![PyPos(table, r.y_start)] = Append(@, r.edge)],
                      i + 1)

GlCanvas_build_edge_table(verts, h) ==
    GlCanvas_edge_loop(verts, h, [k \in 1..(h + 1) |-> <<>>], 1)

\* the spans of the pairs (1st, 2nd), (3rd, 4th), ... of the sorted AET
RECURSIVE GlCanvas_pair_spans(_, _, _)
GlCanvas_pair_spans(aet, yy, k) ==
    IF k + 1 > Len(aet) THEN <<>>
    ELSE LET a == aet[k].x
             b == aet[k + 1].x
             x_left == IF RLess(b, a) THEN b ELSE a
             x_right == IF RLess(b, a) THEN a ELSE b
         IN  (IF RLess(Rat(1, 1000000), RSub(x_right, x_left))
              THEN <<<<yy, x_left, x_right>>>> ELSE <<>>)
             \o GlCanvas_pair_spans(aet, yy, k + 2)

\* the body of "for y in range(0, height + 1)" and the rest of the loop
RECURSIVE GlCanvas_sweep(_, _, _, _, _)
GlCanvas_sweep(table, aet, list, yy, h) ==
    IF yy > h THEN [spans |-> list, raised |-> "none"]
    ELSE IF ~PyIndexOK(table, yy) THEN [spans |-> list, raised |-> "IndexError"]
    ELSE LET sorted == SortAET(GlCanvas_filter(aet \o table[PyPos(table, yy)], yy))
         IN  GlCanvas_sweep(table,
                 [k \in 1..Len(sorted) |->
                     [sorted[k] EXCEPT !.x = RAdd(@, sorted[k].inv_slope)]],
                 list \o GlCanvas_pair_spans(sorted, yy, 1),
                 yy + 1, h)

GlCanvas_compute_scanline_spans(verts, h) ==
    LET b == GlCanvas_build_edge_table(verts, h)
    IN  IF b.raised # "none" THEN [spans |-> <<>>, raised |-> b.raised]
        ELSE GlCanvas_sweep(b.ET, <<>>, <<>>, 0, h)

(***************************************************************************)
(* Inputs                                                                  *)
(***************************************************************************)
\* the point (x, k/2): x in pixels, k in half pixels
Pt(x, k) == <<RInt(x), Rat(k, 2)>>

\* whole-pixel point
Px(x, yy) == <<RInt(x), RInt(yy)>>

Points == {Pt(x, k) : x \in Xs, k \in (0 - 2)..(2 * MaxY)}

Polygons == UNION {[1..n -> Points] : n \in 0..MaxVerts}

Heights == (0 - 1)..MaxHeight

Square == <<Px(0, 0), Px(4, 0), Px(4, 4), Px(0, 4)>>

Triangle == <<Px(0, 0), Px(4, 0), Px(2, 4)>>

Notch == <<Px(0, 0), Px(2, 2), Px(4, 0), Px(4, 4), Px(0, 4)>>

Scenarios == {Square, Triangle, Notch} \X {4}

Inputs == (Polygons \X Heights) \cup Scenarios

\* polygons whose vertices lie in the viewport or half a pixel beyond it
NearPoints == {Pt(x, k) : x \in Xs, k \in (0 - 1)..(2 * MaxHeight + 1)}

NearPolygons == UNION {[1..n -> NearPoints] : n \in 0..MaxVerts}

NearInputs == (NearPolygons \X Heights) \union Scenarios

\* the inputs of the repeated-call specification
CallPoints == {Px(0, 0), Px(1, 0), Px(0, MaxY)}

CallInputs == [1..3 -> CallPoints] \X (0..MaxHeight)

\* c hundredths of n: the products 0.25 * w, 0.2 * h, ... of load_example
Scale(c, n) == Rat(c * n, 100)

ExampleNames == {"Convex pentagon", "Concave arrow", "Complex concave"}

\* the table "examples" of load_example on a canvas of w by h pixels
examples(w, h) ==
    [name \in ExampleNames |->
       CASE name = "Convex pentagon" ->
              << <<Scale(25, w), Scale(20, h)>>, <<Scale(75, w), Scale(25, h)>>,
                 <<Scale(80, w), Scale(65, h)>>, <<Scale(50, w), Scale(85, h)>>,
                 <<Scale(20, w), Scale(60, h)>> >>
         [] name = "Concave arrow" ->
              << <<Scale(20, w), Scale(20, h)>>, <<Scale(70, w), Scale(20, h)>>,
                 <<Scale(70, w), Scale(5, h)>>,  <<Scale(95, w), Scale(35, h)>>,
                 <<Scale(70, w), Scale(65, h)>>, <<Scale(70, w), Scale(50, h)>>,
                 <<Scale(20, w), Scale(50, h)>> >>
         [] name = "Complex concave" ->
              << <<Scale(10, w), Scale(20, h)>>, <<Scale(40, w), Scale(10, h)>>,
                 <<Scale(70, w), Scale(20, h)>>, <<Scale(90, w), Scale(50, h)>>,
                 <<Scale(70, w), Scale(80, h)>>, <<Scale(40, w), Scale(90, h)>>,
                 <<Scale(10, w), Scale(80, h)>>, <<Scale(5, w), Scale(50, h)>> >>]

\* canvas sizes (width, height) in pixels; at height 10 the examples have
\* vertices half way between two scanlines, at height 20 they have none
CanvasSizes == {10, 20} \X {10, 20}

\* the example polygons, filled on the canvas they were loaded on
ExampleInputs ==
    {<<examples(sz[1], sz[2])[name], sz[2]>> : name \in ExampleNames, sz \in CanvasSizes}

\* triangles lying inside the viewport 0..InsideHeight
InsideHeight == MaxHeight + 2

InsidePoints == {Pt(x, k) : x \in {0, 1, 2}, k \in 0..(2 * InsideHeight)}

\* a convex heptagon, 7 scanlines high, with three vertices half way between
\* two scanlines
Bulge ==
    <<Pt(0, 0), Pt(20, 0), Pt(22, 3), Pt(23, 7), Pt(22, 11), Pt(20, 14), Pt(0, 14)>>

InsideInputs ==
    ([1..3 -> InsidePoints] \X {InsideHeight}) \union ExampleInputs \union {<<Bulge, 7>>}

\* polygons on whole pixels, reaching two scanlines beyond each end of the
\* viewport
IntegerPoints ==
    {Px(x, yy) : x \in {0, 1, 2}, yy \in (0 - 2)..(InsideHeight + 2)}

IntegerInputs == ([1..3 -> IntegerPoints] \X {0, InsideHeight}) \union Scenarios

\* the positions of the mouse clicks
ClickPoints == {Px(1, 1), Px(8, 2), Pt(4, 15)}

Buttons == {"left", "right", "middle"}

(***************************************************************************)
(* The state machine                                                       *)
(***************************************************************************)
\* GLCanvas.__init__ on a widget of w by h pixels
NewCanvas(w, h) ==
    /\ points = <<>>
    /\ closed = FALSE
    /\ filled_spans = <<>>
    /\ show_vertices = TRUE
    /\ canvas = [width |-> w, height |-> h]
    /\ stroke_width = 2
    /\ fill_color = "QColor(0, 128, 255, 180)"

\* Camera.__init__(distance=8.0) and the camera fields of OpenGLWidget.__init__;
\* comparison_mode is first assigned by toggle_comparison_mode
NewCamera ==
    /\ camera = [distance |-> RInt(8), angle_x |-> RInt(0), angle_y |-> RInt(0)]
    /\ projection_type = "perspective"
    /\ comparison_mode = "unset"
    /\ last_pos = "None"

\* the module-level assignments of src/preenche.py
NewPreenche ==
    /\ current_polygon = <<>>
    /\ polygons = <<>>
    /\ drawing_mode = TRUE
    /\ line_thickness = 2
    /\ preenche_fill_color = <<0, 0, 1>>

\* OpenGLWidget.__init__ and Scene3D.__init__
NewViewer ==
    /\ current_object = "cube"
    /\ animate = FALSE
    /\ timer_active = FALSE
    /\ connections = 0
    /\ rotation_y = 45
    /\ paint = "none"

\* no call of compute_scanline_spans is under way
NoCall ==
    /\ vertices = <<>>
    /\ height = 0
    /\ pc = "returned"
    /\ raised = "none"
    /\ ET = <<>>
    /\ AET = <<>>
    /\ spans = <<>>
    /\ y = 0
    /\ first = <<>>
    /\ calls = 0

Locals(v, h) ==
    /\ vertices = v
    /\ height = h
    /\ pc = "build"
    /\ raised = "none"
    /\ ET = <<>>
    /\ AET = <<>>
    /\ spans = <<>>
    /\ y = 0

Init ==
    /\ \E in \in Inputs : Locals(in[1], in[2])
    /\ first = <<>>
    /\ calls = 1
    /\ NewCanvas(10, 10)
    /\ NewViewer
    /\ NewCamera
    /\ NewPreenche
    /\ event = "init"

\* a call on a polygon lying in or near the viewport
InitNear ==
    /\ \E in \in NearInputs \union InsideInputs : Locals(in[1], in[2])
    /\ first = <<>>
    /\ calls = 1
    /\ NewCanvas(10, 10)
    /\ NewViewer
    /\ NewCamera
    /\ NewPreenche
    /\ event = "init"

\* a call on a polygon lying inside the viewport
InitInside ==
    /\ \E in \in InsideInputs : Locals(in[1], in[2])
    /\ first = <<>>
    /\ calls = 1
    /\ NewCanvas(10, 10)
    /\ NewViewer
    /\ NewCamera
    /\ NewPreenche
    /\ event = "init"

\* a call on a whole-pixel polygon
InitInteger ==
    /\ \E in \in IntegerInputs : Locals(in[1], in[2])
    /\ first = <<>>
    /\ calls = 1
    /\ NewCanvas(10, 10)
    /\ NewViewer
    /\ NewCamera
    /\ NewPreenche
    /\ event = "init"

\* the canvas before its first fill
InitCalls ==
    /\ vertices = <<>>
    /\ height = 0
    /\ pc = "returned"
    /\ raised = "none"
    /\ ET = <<>>
    /\ AET = <<>>
    /\ spans = <<>>
    /\ y = 0
    /\ first = <<>>
    /\ calls = 0
    /\ NewCanvas(10, 10)
    /\ NewViewer
    /\ NewCamera
    /\ NewPreenche
    /\ event = "init"

\* ET = build_edge_table(vertices, height); AET = []; spans = []
Build ==
    /\ pc = "build"
    /\ LET r == build_edge_table(vertices, height)
       IN  IF r.raised # "none"
           THEN /\ pc' = "raised"
                /\ raised' = r.raised
                /\ UNCHANGED <<ET, AET, spans, y>>
           ELSE /\ pc' = "sweep"
                /\ ET' = r.ET
                /\ AET' = FreshAET(AET)
                /\ spans' = FreshSpans(spans)
                /\ y' = 0
                /\ UNCHANGED raised
    /\ UNCHANGED <<vertices, height, first, calls>>
    /\ UNCHANGED <<canvasVars, viewerVars, cameraVars, preencheVars, event>>

\* one iteration of the scanline loop
Scanline ==
    /\ pc = "sweep"
    /\ InRange(y, height)
    /\ LET r == ScanlineBody(ET, AET, spans, y)
       IN  IF r.raised # "none"
           THEN /\ pc' = "raised"
                /\ raised' = r.raised
                /\ UNCHANGED <<AET, spans, y>>
           ELSE /\ spans' = r.spans
                /\ AET' = r.AET
                /\ y' = y + 1
                /\ UNCHANGED <<pc, raised>>
    /\ UNCHANGED <<vertices, height, ET, first, calls>>
    /\ UNCHANGED <<canvasVars, viewerVars, cameraVars, preencheVars, event>>

\* return spans
Return ==
    /\ pc = "sweep"
    /\ ~InRange(y, height)
    /\ pc' = "returned"
    /\ first' = IF first = <<>> THEN <<[vertices |-> vertices, height |-> height,
                                        spans |-> spans]>>
                ELSE first
    /\ UNCHANGED <<vertices, height, raised, ET, AET, spans, y, calls>>
    /\ UNCHANGED <<canvasVars, viewerVars, cameraVars, preencheVars, event>>

\* the caller fills (again): a new call of compute_scanline_spans enters and
\* runs up to the scanline loop
Call ==
    /\ pc = "returned"
    /\ calls < MaxCalls
    /\ \E in \in CallInputs :
          LET r == build_edge_table(in[1], in[2])
          IN  /\ vertices' = in[1]
              /\ height' = in[2]
              /\ IF r.raised # "none"
                 THEN /\ pc' = "raised"
                      /\ raised' = r.raised
                      /\ UNCHANGED <<ET, AET, spans, y>>
                 ELSE /\ pc' = "sweep"
                      /\ ET' = r.ET
                      /\ AET' = FreshAET(AET)
                      /\ spans' = FreshSpans(spans)
                      /\ y' = 0
                      /\ UNCHANGED raised
    /\ calls' = calls + 1
    /\ UNCHANGED first
    /\ UNCHANGED <<canvasVars, viewerVars, cameraVars, preencheVars, event>>

\* variant: the handlers leave the spans as they are
KeptSpans(old) == old

\* self.filled_spans.clear()
ClearedSpans(old) == <<>>

\* len(self.points) >= 3, the test of close_polygon
\* variant: two points are enough
CanCloseTwo(pts) == Len(pts) >= 2

CanClose(pts) == Len(pts) >= 3

\* "if not self.closed", the test of fill
\* variant: fill never refuses
FillRefusedNever(isClosed) == FALSE

FillRefused(isClosed) == ~isClosed

\* mousePressEvent: a left click on an open polygon appends the position and
\* clears the spans; a right click toggles the vertex display
mousePressEvent ==
    /\ \E button \in Buttons, pos \in ClickPoints :
          /\ (button = "left" /\ ~closed) => Len(points) < MaxPoints
          /\ event' = button
          /\ IF button = "left" /\ ~closed
             THEN /\ points' = Append(points, pos)
                  /\ filled_spans' = ClearedSpans(filled_spans)
                  /\ UNCHANGED <<closed, show_vertices>>
             ELSE IF button = "right"
                  THEN /\ show_vertices' = ~show_vertices
                       /\ UNCHANGED <<points, closed, filled_spans>>
                  ELSE UNCHANGED <<points, closed, filled_spans, show_vertices>>
    /\ UNCHANGED <<canvas, stroke_width, fill_color, fillVars, viewerVars,
                 cameraVars, preencheVars>>

clear ==
    /\ points' = <<>>
    /\ closed' = FALSE
    /\ filled_spans' = ClearedSpans(filled_spans)
    /\ event' = "clear"
    /\ UNCHANGED <<show_vertices, canvas, stroke_width, fill_color, fillVars, viewerVars,
                 cameraVars, preencheVars>>

close_polygon ==
    /\ IF CanClose(points)
       THEN /\ closed' = TRUE
            /\ filled_spans' = ClearedSpans(filled_spans)
       ELSE UNCHANGED <<closed, filled_spans>>
    /\ event' = "close_polygon"
    /\ UNCHANGED <<points, show_vertices, canvas, stroke_width, fill_color, fillVars, viewerVars,
                 cameraVars, preencheVars>>

\* fill: the spans of the polygon over int(self.height()) scanlines
fill ==
    /\ IF FillRefused(closed)
       THEN UNCHANGED filled_spans
       ELSE LET r == compute_scanline_spans(points, canvas.height)
            IN  IF r.raised # "none"
                THEN UNCHANGED filled_spans
                ELSE filled_spans' = r.spans
    /\ event' = "fill"
    /\ UNCHANGED <<points, closed, show_vertices, canvas, stroke_width, fill_color, fillVars, viewerVars,
                 cameraVars, preencheVars>>

\* load_example; a name outside the table changes nothing (the menu of
\* src/trabalho_1/MainWindow.py offers "Complex concave", which the table of
\* src/trabalho_1/GlCanvas.py lacks)
load_example ==
    /\ \E name \in ExampleNames \union {"unlisted"} :
          IF name \in ExampleNames
          THEN /\ points' = examples(canvas.width, canvas.height)[name]
               /\ closed' = TRUE
               /\ filled_spans' = ClearedSpans(filled_spans)
          ELSE UNCHANGED <<points, closed, filled_spans>>
    /\ event' = "load_example"
    /\ UNCHANGED <<show_vertices, canvas, stroke_width, fill_color, fillVars, viewerVars,
                 cameraVars, preencheVars>>

\* the values handed to set_stroke_width (the spin box offers 1..20; 0 is a
\* direct call) and the colour picked in the dialog
StrokeWidths == {0, 1}

FillColors == {"QColor(255, 0, 0, 255)"}

\* self.stroke_width = max(1, int(w))
set_stroke_width ==
    /\ \E w \in StrokeWidths : stroke_width' = IMax(1, w)
    /\ event' = "set_stroke_width"
    /\ UNCHANGED <<points, closed, filled_spans, show_vertices, canvas, fill_color>>
    /\ UNCHANGED <<fillVars, viewerVars,
                 cameraVars, preencheVars>>

\* self.fill_color = c
set_fill_color ==
    /\ \E c \in FillColors : fill_color' = c
    /\ event' = "set_fill_color"
    /\ UNCHANGED <<points, closed, filled_spans, show_vertices, canvas, stroke_width>>
    /\ UNCHANGED <<fillVars, viewerVars,
                 cameraVars, preencheVars>>

(***************************************************************************)
(* The 3D viewer of src/trabalho_2                                         *)
(***************************************************************************)
\* the entries of the object selector ("Piramide" stands for the accented
\* entry of the source)
ObjectEntries == {"Cubo", "Piramide", "Cone", "Esfera"}

\* obj_map of change_object
obj_map ==
    [text \in ObjectEntries |->
       CASE text = "Cubo" -> "cube"
         [] text = "Piramide" -> "pyramid"
         [] text = "Cone" -> "cone"
         [] text = "Esfera" -> "sphere"]

\* the keys of Scene3D.objects
ObjectKeys == {"cube", "pyramid", "cylinder", "sphere"}

\* Scene3D.get_object(): self.objects.get(key)
get_object(key) == IF key \in ObjectKeys THEN key ELSE "None"

\* the range of the rotation sliders, and the values the user sets here
SliderRange == 0..360

SliderStops == {0, 45, 359, 360}

\* the body of start_animation
start_animation(on, angle) == IF on THEN (angle + 2) % 360 ELSE angle

\* start_animation called once per connection of the timeout signal
RECURSIVE EmitTimeout(_, _, _)
EmitTimeout(n, on, angle) ==
    IF n = 0 THEN angle ELSE EmitTimeout(n - 1, on, start_animation(on, angle))

\* an exception that leaves paintGL ends the application (PyQt6 aborts on an
\* exception raised in a reimplemented virtual method)
Running == paint # "AttributeError"

change_object ==
    /\ Running
    /\ \E text \in ObjectEntries : current_object' = obj_map[text]
    /\ event' = "change_object"
    /\ UNCHANGED <<animate, timer_active, connections, rotation_y, paint>>
    /\ UNCHANGED <<fillVars, canvasVars, cameraVars, preencheVars>>

\* paintGL, draw_normal_view: self.scene.get_object().draw()
paintGL ==
    /\ Running
    /\ paint' = IF get_object(current_object) = "None" THEN "AttributeError" ELSE "drawn"
    /\ event' = "paintGL"
    /\ UNCHANGED <<current_object, animate, timer_active, connections, rotation_y>>
    /\ UNCHANGED <<fillVars, canvasVars, cameraVars, preencheVars>>

\* the Y slider moved by the user
update_rotation_y ==
    /\ Running
    /\ \E value \in SliderStops : rotation_y' = value
    /\ event' = "update_rotation_y"
    /\ UNCHANGED <<current_object, animate, timer_active, connections, paint>>
    /\ UNCHANGED <<fillVars, canvasVars, cameraVars, preencheVars>>

toggle_animation ==
    /\ Running
    /\ IF animate
       THEN /\ animate' = FALSE
            /\ timer_active' = FALSE
            /\ UNCHANGED connections
       ELSE /\ connections < MaxConnections
            /\ animate' = TRUE
            /\ timer_active' = TRUE
            /\ connections' = connections + 1
    /\ event' = "toggle_animation"
    /\ UNCHANGED <<current_object, rotation_y, paint>>
    /\ UNCHANGED <<fillVars, canvasVars, cameraVars, preencheVars>>

\* the timer fires: update is scheduled, then every connected start_animation
\* runs (its setValue calls update_rotation_y with the value just stored)
timeout ==
    /\ Running
    /\ timer_active
    /\ rotation_y' = EmitTimeout(connections, animate, rotation_y)
    /\ event' = "timeout"
    /\ UNCHANGED <<current_object, animate, timer_active, connections, paint>>
    /\ UNCHANGED <<fillVars, canvasVars, cameraVars, preencheVars>>

reset_view ==
    /\ Running
    /\ rotation_y' = 45
    /\ camera' = [distance |-> RInt(8), angle_x |-> RInt(0), angle_y |-> RInt(0)]
    /\ event' = "reset_view"
    /\ UNCHANGED <<current_object, animate, timer_active, connections, paint>>
    /\ UNCHANGED <<projection_type, comparison_mode, last_pos>>
    /\ UNCHANGED <<fillVars, canvasVars, preencheVars>>

(***************************************************************************)
(* The 3D viewer of src/main.py: the timeout signal is connected to update *)
(* alone                                                                   *)
(***************************************************************************)
main_update_rotation_y ==
    /\ \E value \in SliderRange : rotation_y' = value
    /\ event' = "update_rotation_y"
    /\ UNCHANGED <<current_object, animate, timer_active, connections, paint>>
    /\ UNCHANGED <<fillVars, canvasVars, cameraVars, preencheVars>>

main_toggle_animation ==
    /\ animate' = ~animate
    /\ timer_active' = ~animate
    /\ event' = "toggle_animation"
    /\ UNCHANGED <<current_object, connections, rotation_y, paint>>
    /\ UNCHANGED <<fillVars, canvasVars, cameraVars, preencheVars>>

\* the timer fires: update, the one slot connected, schedules a repaint
main_timeout ==
    /\ timer_active
    /\ event' = "timeout"
    /\ UNCHANGED <<current_object, animate, timer_active, connections, rotation_y, paint>>
    /\ UNCHANGED <<fillVars, canvasVars, cameraVars, preencheVars>>

main_reset_view ==
    /\ rotation_y' = 45
    /\ camera' = [distance |-> RInt(8), angle_x |-> RInt(0), angle_y |-> RInt(0)]
    /\ event' = "reset_view"
    /\ UNCHANGED <<current_object, animate, timer_active, connections, paint>>
    /\ UNCHANGED <<projection_type, comparison_mode, last_pos>>
    /\ UNCHANGED <<fillVars, canvasVars, preencheVars>>

(***************************************************************************)
(* The orbital camera of src/trabalho_2 (core/camera.py) and the handlers  *)
(* that move it                                                            *)
(***************************************************************************)
\* the mouse displacements (dx, dy) between two move events, in pixels, and
\* the wheel steps event.angleDelta().y()
Drags == {<<0 - 240, 0>>, <<240, 0>>, <<0, 90>>, <<0, 0 - 90>>}

WheelDeltas == {0 - 600, 600}

ProjectionTypes == {"perspective", "orthographic"}

\* variant: the vertical angle is not limited
rotateUnlimited(cam, delta_x, delta_y) ==
    [cam EXCEPT !.angle_y = RAdd(@, RMul(RInt(delta_x), Rat(1, 2))),
                !.angle_x = RAdd(@, RMul(RInt(delta_y), Rat(1, 2)))]

\* Camera.rotate
rotate(cam, delta_x, delta_y) ==
    [cam EXCEPT !.angle_y = RAdd(@, RMul(RInt(delta_x), Rat(1, 2))),
                !.angle_x = RMax(RInt(0 - 89),
                                 RMin(RInt(89), RAdd(@, RMul(RInt(delta_y), Rat(1, 2)))))]

\* variant: the distance is not limited
zoomUnlimited(cam, delta) ==
    [cam EXCEPT !.distance = RSub(@, RMul(RInt(delta), Rat(1, 100)))]

\* Camera.zoom
zoom(cam, delta) ==
    [cam EXCEPT !.distance =
        RMax(RInt(2), RMin(RInt(20), RSub(@, RMul(RInt(delta), Rat(1, 100)))))]

\* the model follows angle_y for MaxTurns turns in either direction
WithinTurns(cam) == Abs(cam.angle_y.n) <= 360 * MaxTurns * cam.angle_y.d

\* OpenGLWidget.mousePressEvent: self.last_pos = event.position()
viewer_mousePressEvent ==
    /\ Running
    /\ last_pos' = "position"
    /\ event' = "mousePressEvent"
    /\ UNCHANGED <<camera, projection_type, comparison_mode>>
    /\ UNCHANGED <<fillVars, canvasVars, viewerVars, preencheVars>>

\* OpenGLWidget.mouseMoveEvent: a drag rotates the camera
mouseMoveEvent ==
    /\ Running
    /\ IF last_pos # "None"
       THEN \E d \in Drags :
               /\ WithinTurns(rotate(camera, d[1], d[2]))
               /\ camera' = rotate(camera, d[1], d[2])
       ELSE UNCHANGED camera
    /\ event' = "mouseMoveEvent"
    /\ UNCHANGED <<projection_type, comparison_mode, last_pos>>
    /\ UNCHANGED <<fillVars, canvasVars, viewerVars, preencheVars>>

\* OpenGLWidget.mouseReleaseEvent: self.last_pos = None
mouseReleaseEvent ==
    /\ Running
    /\ last_pos' = "None"
    /\ event' = "mouseReleaseEvent"
    /\ UNCHANGED <<camera, projection_type, comparison_mode>>
    /\ UNCHANGED <<fillVars, canvasVars, viewerVars, preencheVars>>

\* OpenGLWidget.wheelEvent
wheelEvent ==
    /\ Running
    /\ \E delta \in WheelDeltas : camera' = zoom(camera, delta)
    /\ event' = "wheelEvent"
    /\ UNCHANGED <<projection_type, comparison_mode, last_pos>>
    /\ UNCHANGED <<fillVars, canvasVars, viewerVars, preencheVars>>

\* OpenGLWidget.set_projection_type, called by MainWindow.change_projection
set_projection_type ==
    /\ Running
    /\ \E proj_type \in ProjectionTypes :
          /\ projection_type' = proj_type
          /\ camera' = [camera EXCEPT !.distance =
                           IF proj_type = "orthographic" THEN RInt(10) ELSE RInt(8)]
    /\ event' = "set_projection_type"
    /\ UNCHANGED <<comparison_mode, last_pos>>
    /\ UNCHANGED <<fillVars, canvasVars, viewerVars, preencheVars>>

\* MainWindow.toggle_comparison_mode
toggle_comparison_mode ==
    /\ Running
    /\ \E checked \in BOOLEAN :
          /\ comparison_mode' = IF checked THEN "True" ELSE "False"
          /\ camera' = [camera EXCEPT !.distance =
                           IF checked THEN RInt(12) ELSE RInt(8)]
    /\ event' = "toggle_comparison_mode"
    /\ UNCHANGED <<projection_type, last_pos>>
    /\ UNCHANGED <<fillVars, canvasVars, viewerVars, preencheVars>>

(***************************************************************************)
(* The standalone script src/preenche.py: handle_mouse_click and the event *)
(* loop of main                                                            *)
(***************************************************************************)
window_height == 600

\* the window positions clicked: the five buttons, a gap between two buttons,
\* the band to the right of the buttons, and two positions of the canvas
ClickPositions ==
    {<<50, 590>>, <<140, 590>>, <<230, 590>>, <<320, 590>>, <<410, 590>>,
     <<95, 590>>, <<500, 570>>, <<100, 100>>, <<300, 200>>}

MouseButtons == {1, 3}

Keys == {"K_RETURN", "K_SPACE"}

RECURSIVE StoredVertices(_)
StoredVertices(list) ==
    IF list = <<>> THEN Len(current_polygon)
    ELSE Len(list[1]) + StoredVertices(Tail(list))

\* the Colour button: blue, red, green, blue, ...
NextColor(c) ==
    IF c = <<0, 0, 1>> THEN <<1, 0, 0>>
    ELSE IF c = <<1, 0, 0>> THEN <<0, 1, 0>>
    ELSE <<0, 0, 1>>

\* "if current_polygon:", the test of the Draw and Fill buttons
Commits(poly) == poly # <<>>

handle_mouse_click(x, yy) ==
    LET y_adj == window_height - yy
    IN  IF y_adj < 40
        THEN IF 10 <= x /\ x <= 90
             THEN /\ drawing_mode' = TRUE
                  /\ polygons' = IF Commits(current_polygon)
                                 THEN Append(polygons, current_polygon) ELSE polygons
                  /\ current_polygon' = <<>>
                  /\ UNCHANGED <<line_thickness, preenche_fill_color>>
             ELSE IF 100 <= x /\ x <= 180
             THEN /\ drawing_mode' = FALSE
                  /\ IF Commits(current_polygon)
                     THEN /\ polygons' = Append(polygons, current_polygon)
                          /\ current_polygon' = <<>>
                     ELSE UNCHANGED <<polygons, current_polygon>>
                  /\ UNCHANGED <<line_thickness, preenche_fill_color>>
             ELSE IF 190 <= x /\ x <= 270
             THEN /\ current_polygon' = <<>>
                  /\ polygons' = <<>>
                  /\ UNCHANGED <<drawing_mode, line_thickness, preenche_fill_color>>
             ELSE IF 280 <= x /\ x <= 360
             THEN /\ line_thickness' = (line_thickness % 5) + 1
                  /\ UNCHANGED <<current_polygon, polygons, drawing_mode,
                                 preenche_fill_color>>
             ELSE IF 370 <= x /\ x <= 450
             THEN /\ preenche_fill_color' = NextColor(preenche_fill_color)
                  /\ UNCHANGED <<current_polygon, polygons, drawing_mode, line_thickness>>
             ELSE UNCHANGED preencheVars
        ELSE IF drawing_mode /\ y_adj >= 40
             THEN /\ StoredVertices(polygons) < MaxStored
                  /\ current_polygon' = Append(current_polygon, <<x, y_adj>>)
                  /\ UNCHANGED <<polygons, drawing_mode, line_thickness,
                                 preenche_fill_color>>
             ELSE UNCHANGED preencheVars

\* main: a MOUSEBUTTONDOWN event; only the left button is handled
MOUSEBUTTONDOWN ==
    /\ \E button \in MouseButtons, pos \in ClickPositions :
          IF button = 1 THEN handle_mouse_click(pos[1], pos[2])
          ELSE UNCHANGED preencheVars
    /\ event' = "MOUSEBUTTONDOWN"
    /\ UNCHANGED <<fillVars, canvasVars, viewerVars, cameraVars>>

\* main: a KEYDOWN event; Enter stores a current polygon of 3 vertices or more
KEYDOWN ==
    /\ \E key \in Keys :
          IF key = "K_RETURN" /\ drawing_mode /\ Len(current_polygon) >= 3
          THEN /\ polygons' = Append(polygons, current_polygon)
               /\ current_polygon' = <<>>
               /\ UNCHANGED <<drawing_mode, line_thickness, preenche_fill_color>>
          ELSE UNCHANGED preencheVars
    /\ event' = "KEYDOWN"
    /\ UNCHANGED <<fillVars, canvasVars, viewerVars, cameraVars>>

Next == Build \/ Scanline \/ Return

NextViewer ==
    \/ change_object
    \/ paintGL
    \/ update_rotation_y
    \/ toggle_animation
    \/ timeout
    \/ reset_view

NextMain ==
    \/ main_update_rotation_y
    \/ main_toggle_animation
    \/ main_timeout
    \/ main_reset_view

NextCanvas ==
    \/ mousePressEvent
    \/ clear
    \/ close_polygon
    \/ fill
    \/ load_example
    \/ set_stroke_width
    \/ set_fill_color

NextCalls == Call \/ Scanline \/ Return

\* build_edge_table called on its own
NextBuild == Build

Spec == Init /\ [][Next]_vars

SpecBuild == InitNear /\ [][NextBuild]_vars

SpecNear == InitNear /\ [][Next]_vars

SpecCalls == InitCalls /\ [][NextCalls]_vars

SpecInside == InitInside /\ [][Next]_vars

SpecInteger == InitInteger /\ [][Next]_vars

\* a canvas of one of the sizes, just constructed
InitCanvas ==
    /\ \E sz \in CanvasSizes : NewCanvas(sz[1], sz[2])
    /\ NoCall
    /\ NewViewer
    /\ NewCamera
    /\ NewPreenche
    /\ event = "init"

SpecCanvas == InitCanvas /\ [][NextCanvas]_vars

\* the main window just constructed
InitViewer ==
    /\ NewViewer
    /\ NewCamera
    /\ NewPreenche
    /\ NewCanvas(10, 10)
    /\ NoCall
    /\ event = "init"

SpecViewer == InitViewer /\ [][NextViewer]_vars

SpecMain == InitViewer /\ [][NextMain]_vars

NextCamera ==
    \/ viewer_mousePressEvent
    \/ mouseMoveEvent
    \/ mouseReleaseEvent
    \/ wheelEvent
    \/ set_projection_type
    \/ toggle_comparison_mode
    \/ reset_view

SpecCamera == InitViewer /\ [][NextCamera]_vars

NextPreenche == MOUSEBUTTONDOWN \/ KEYDOWN

SpecPreenche == InitViewer /\ [][NextPreenche]_vars

(***************************************************************************)
(* Helpers of the properties                                               *)
(***************************************************************************)
Returned == pc = "returned"

NextIndex(verts, i) == (i % Len(verts)) + 1

\* some side of the polygon has both endpoints on the same y
HasFlatSide(verts) ==
    \E i \in 1..Len(verts) : verts[i][2] = verts[NextIndex(verts, i)][2]

\* some side of the polygon survives the horizontal-edge test
HasSlantedSide(verts) ==
    \E i \in 1..Len(verts) : ~IsHorizontal(verts[i][2], verts[NextIndex(verts, i)][2])

Reverse(verts) == [k \in 1..Len(verts) |-> verts[Len(verts) + 1 - k]]

\* the cyclic rotation by one place; its powers are all the rotations
RotateOne(verts) == [k \in 1..Len(verts) |-> verts[NextIndex(verts, k)]]

\* the scanline the loop body ran last, once it has run
LastLine == y - 1

Swept == pc \in {"sweep", "returned"} /\ y >= 1

\* scanline yy lies within the vertical extent of the polygon
Intersects(verts, yy) ==
    /\ \E i \in 1..Len(verts) : RLeq(verts[i][2], RInt(yy))
    /\ \E i \in 1..Len(verts) : RLeq(RInt(yy), verts[i][2])

SpansOn(list, yy) == {k \in 1..Len(list) : list[k][1] = yy}

(***************************************************************************)
(* C1: for every vertex list and every height, build_edge_table and        *)
(* compute_scanline_spans run to completion without raising: no division   *)
(* by dy = 0, no bucket index outside 0..height, and the sweep stops after *)
(* exactly height + 1 iterations (none when height < 0).                   *)
(***************************************************************************)
NeverRaises ==
    /\ pc # "raised"
    /\ raised = "none"
    /\ pc \in {"sweep", "returned"} =>
          /\ Len(ET) = IMax(height + 1, 0)
          /\ 0 <= y /\ y <= IMax(height + 1, 0)
    /\ Returned => y = IMax(height + 1, 0)

NeverRaisesWitness ==
    /\ Returned
    /\ Len(vertices) >= 3
    /\ HasFlatSide(vertices)
    /\ HasSlantedSide(vertices)
    /\ height >= 1
    /\ y = height + 1
    /\ spans # <<>>

(***************************************************************************)
(* C2: the square (0,0),(4,0),(4,4),(0,4) with height 4 yields exactly     *)
(* (0,0,4),(1,0,4),(2,0,4),(3,0,4).                                        *)
(***************************************************************************)
SquareSpans ==
    Returned /\ vertices = Square /\ height = 4 =>
        spans = [k \in 1..4 |-> <<k - 1, RInt(0), RInt(4)>>]

SquareWitness == Returned /\ vertices = Square /\ height = 4 /\ Len(spans) = 4

(***************************************************************************)
(* C3: the triangle (0,0),(4,0),(2,4) with height 4 yields exactly         *)
(* (0,0,4),(1,0.5,3.5),(2,1,3),(3,1.5,2.5): widths strictly decreasing,    *)
(* every span symmetric around x = 2.                                      *)
(***************************************************************************)
TriangleSpans ==
    Returned /\ vertices = Triangle /\ height = 4 =>
        /\ spans = << <<0, RInt(0), RInt(4)>>,
                      <<1, Rat(1, 2), Rat(7, 2)>>,
                      <<2, RInt(1), RInt(3)>>,
                      <<3, Rat(3, 2), Rat(5, 2)>> >>
        /\ \A k \in 1..Len(spans) : RAdd(spans[k][2], spans[k][3]) = RInt(4)
        /\ \A k \in 1..(Len(spans) - 1) :
              RLess(RSub(spans[k + 1][3], spans[k + 1][2]),
                    RSub(spans[k][3], spans[k][2]))

TriangleWitness == Returned /\ vertices = Triangle /\ height = 4 /\ Len(spans) = 4

(***************************************************************************)
(* C4: a vertex list of 0, 1 or 2 vertices yields the empty span list for  *)
(* every height, and nothing is raised.                                    *)
(***************************************************************************)
FewVerticesEmpty ==
    Len(vertices) < 3 => pc # "raised" /\ spans = <<>>

FewVerticesWitness ==
    /\ Returned
    /\ Len(vertices) = 2
    /\ vertices[1][1] # vertices[2][1]
    /\ height >= 1
    /\ \E k \in 1..Len(ET) : Len(ET[k]) = 2

(***************************************************************************)
(* C5 as stated: with height = 0 or any negative height the call returns   *)
(* the empty span list, whatever the polygon.                              *)
(***************************************************************************)
DegenerateHeightEmpty ==
    Returned /\ height <= 0 => spans = <<>>

(***************************************************************************)
(* C5 amended: with a negative height the call returns the empty span      *)
(* list after no scanline iteration and raises nothing; with height = 0    *)
(* it sweeps scanline 0 alone, so every span it returns lies on y = 0.     *)
(***************************************************************************)
NegativeHeightEmpty ==
    /\ height < 0 => pc # "raised" /\ spans = <<>> /\ y = 0
    /\ height = 0 => \A k \in 1..Len(spans) : spans[k][1] = 0

NegativeHeightWitness ==
    /\ Returned
    /\ height < 0
    /\ Len(vertices) >= 3
    /\ \E i \in 1..Len(vertices) :
          RLess(vertices[i][2], RInt(0)) /\ RLess(RInt(0), vertices[NextIndex(vertices, i)][2])

(***************************************************************************)
(* C6: compute_scanline_spans is a function of (vertices, height) alone:   *)
(* a later call with the inputs of the first call returns the span list    *)
(* the first call returned, whatever calls were made in between; nothing   *)
(* of the AET, the spans or the edges of one call reaches the next.        *)
(***************************************************************************)
SameInputsSameSpans ==
    Returned /\ first # <<>> /\ first[1].vertices = vertices /\ first[1].height = height
        => spans = first[1].spans

SameInputsWitness ==
    /\ Returned
    /\ calls = 3
    /\ first # <<>>
    /\ first[1].vertices = vertices
    /\ first[1].height = height
    /\ spans # <<>>
    /\ AET # <<>>

(***************************************************************************)
(* C7: parity.  For a polygon of 3 or more vertices, on every scanline of  *)
(* 0..height that intersects the polygon the AET holds an even number of   *)
(* edges after the activate and deactivate steps.                          *)
(***************************************************************************)
Parity ==
    Swept /\ Len(vertices) >= 3 /\ Intersects(vertices, LastLine)
        => Len(AET) % 2 = 0

(***************************************************************************)
(* C8: winding-agnostic.  The reversed vertex list and every cyclic        *)
(* rotation of the vertex list yield the span list of the vertex list      *)
(* itself (rotation by one place generates every rotation).                *)
(***************************************************************************)
WindingAgnostic ==
    Returned =>
        /\ compute_scanline_spans(Reverse(vertices), height)
              = [spans |-> spans, raised |-> "none"]
        /\ compute_scanline_spans(RotateOne(vertices), height)
              = [spans |-> spans, raised |-> "none"]

WindingWitness ==
    /\ Returned
    /\ Len(vertices) >= 3
    /\ Reverse(vertices) # vertices
    /\ RotateOne(vertices) # vertices
    /\ Reverse(vertices) # RotateOne(vertices)
    /\ Len(spans) >= 2

(***************************************************************************)
(* C9: every span (y, x_left, x_right) returned has an integer y in        *)
(* 0..height, x_left <= x_right and x_right - x_left > 1e-6.               *)
(***************************************************************************)
SpansWellFormed ==
    \A k \in 1..Len(spans) :
        /\ spans[k][1] \in 0..height
        /\ RLeq(spans[k][2], spans[k][3])
        /\ RLess(Eps, RSub(spans[k][3], spans[k][2]))

\* scanline 0 activated a pair of edges and emitted nothing (the pair had no
\* width), and a later scanline emitted a span
SpansWellFormedWitness ==
    /\ Returned
    /\ height >= 1
    /\ Len(ET[1]) >= 2
    /\ SpansOn(spans, 0) = {}
    /\ spans # <<>>

(***************************************************************************)
(* C10: the span list is in scanline order: y never decreases along it.    *)
(***************************************************************************)
ScanlineOrder ==
    \A i \in 1..Len(spans) : \A j \in i..Len(spans) : spans[i][1] <= spans[j][1]

ScanlineOrderWitness ==
    /\ Returned
    /\ \E yy \in 0..height : Cardinality(SpansOn(spans, yy)) >= 2
    /\ \E i \in 1..Len(spans) : \E j \in 1..Len(spans) : spans[i][1] < spans[j][1]

(***************************************************************************)
(* Helpers of the edge table properties                                    *)
(***************************************************************************)
\* build_edge_table has returned its table
Built == pc = "sweep" /\ y = 0

SideIsHorizontal(verts, i) ==
    IsHorizontal(verts[i][2], verts[NextIndex(verts, i)][2])

SideOriented(verts, i) == Oriented(verts[i], verts[NextIndex(verts, i)])

SideStart(verts, h, i) == YStart(SideOriented(verts, i).ymin, h)

SideEnd(verts, h, i) == YEnd(SideOriented(verts, i).ymax, h)

\* the side is not horizontal and its clipped range y_start..y_end is not
\* empty and starts in 0..height
SideEntered(verts, h, i) ==
    /\ ~SideIsHorizontal(verts, i)
    /\ 0 <= SideStart(verts, h, i)
    /\ SideStart(verts, h, i) <= h
    /\ SideStart(verts, h, i) <= SideEnd(verts, h, i)

\* the Edge of side i
SideEdge(verts, h, i) ==
    LET o   == SideOriented(verts, i)
        inv == RDiv(o.dx, o.dy)
    IN  [ymax |-> SideEnd(verts, h, i),
         x |-> RAdd(o.x_at_ymin, RMul(inv, RSub(RInt(SideStart(verts, h, i)), o.ymin))),
         inv_slope |-> inv]

\* the sides entered with first scanline b, in polygon order
SidesOfBucket(verts, h, b) ==
    SelectSeq([i \in 1..Len(verts) |-> i],
              LAMBDA i : SideEntered(verts, h, i) /\ SideStart(verts, h, i) = b)

BucketOf(verts, h, b) ==
    LET sides == SidesOfBucket(verts, h, b)
    IN  [k \in 1..Len(sides) |-> SideEdge(verts, h, sides[k])]

RECURSIVE SumLen(_, _)
SumLen(table, k) == IF k = 0 THEN 0 ELSE Len(table[k]) + SumLen(table, k - 1)

(***************************************************************************)
(* C11: build_edge_table returns height + 1 buckets; a horizontal side     *)
(* appears in none; every other side whose clipped range y_start..y_end is *)
(* not empty and starts in 0..height appears exactly once, in the bucket   *)
(* of y_start, and no side appears otherwise.                              *)
(***************************************************************************)
EdgeTableContent ==
    Built =>
        /\ Len(ET) = IMax(height + 1, 0)
        /\ \A b \in 0..height : ET[b + 1] = BucketOf(vertices, height, b)
        /\ SumLen(ET, Len(ET))
              = Cardinality({i \in 1..Len(vertices) : SideEntered(vertices, height, i)})

EdgeTableWitness ==
    /\ Built
    /\ Len(vertices) >= 3
    /\ \E i \in 1..Len(vertices) : SideIsHorizontal(vertices, i)
    /\ \E i \in 1..Len(vertices) :
          ~SideIsHorizontal(vertices, i) /\ ~SideEntered(vertices, height, i)
    /\ \E i \in 1..Len(vertices) :
          /\ SideEntered(vertices, height, i)
          /\ SideStart(vertices, height, i) > 0
          /\ SideStart(vertices, height, i) < SideEnd(vertices, height, i)

(***************************************************************************)
(* C12 as stated: for a vertex list of length 0, 1 or 2 and height >= 0   *)
(* every bucket of the table build_edge_table returns is empty.            *)
(***************************************************************************)
FewVerticesEmptyTable ==
    (Built /\ Len(vertices) <= 2 /\ height >= 0) =>
        \A b \in 1..Len(ET) : ET[b] = <<>>

(***************************************************************************)
(* C12 amended: for a vertex list of length 0 or 1 and height >= 0 every   *)
(* bucket is empty; for a list of length 2 the segment is entered once per *)
(* direction, so a bucket holds either no edge or the same edge twice.     *)
(***************************************************************************)
FewVerticesTable ==
    (Built /\ Len(vertices) <= 2 /\ height >= 0) =>
        /\ Len(ET) = height + 1
        /\ Len(vertices) <= 1 => \A b \in 1..Len(ET) : ET[b] = <<>>
        /\ Len(vertices) = 2 =>
              /\ SumLen(ET, Len(ET)) \in {0, 2}
              /\ \A b \in 1..Len(ET) :
                    \/ ET[b] = <<>>
                    \/ Len(ET[b]) = 2 /\ ET[b][1] = ET[b][2]

FewVerticesTableWitness ==
    /\ Built
    /\ Len(vertices) = 2
    /\ height >= 1
    /\ vertices[1][1] # vertices[2][1]
    /\ \E b \in 1..Len(ET) : Len(ET[b]) = 2

(***************************************************************************)
(* Helpers of the scenario properties                                      *)
(***************************************************************************)
\* twice the signed area of the triangle a, b, c
Cross(a, b, c) ==
    RSub(RMul(RSub(b[1], a[1]), RSub(c[2], a[2])),
         RMul(RSub(b[2], a[2]), RSub(c[1], a[1])))

\* strictly convex: every vertex off a side lies strictly on one and the
\* same side of it, for all sides
Convex(verts) ==
    /\ Len(verts) >= 3
    /\ \E sign \in {0 - 1, 1} :
          \A i \in 1..Len(verts) : \A k \in 1..Len(verts) :
              (k # i /\ k # NextIndex(verts, i)) =>
                  sign * Cross(verts[i], verts[NextIndex(verts, i)], verts[k]).n > 0

InsideViewport(verts, h) ==
    \A i \in 1..Len(verts) :
        /\ RLeq(RInt(0), verts[i][1])
        /\ RLeq(RInt(0), verts[i][2])
        /\ RLeq(verts[i][2], RInt(h))

\* scanline yy lies strictly between the lowest and the highest vertex
StrictlyWithinExtent(verts, yy) ==
    /\ \E i \in 1..Len(verts) : RLess(verts[i][2], RInt(yy))
    /\ \E i \in 1..Len(verts) : RLess(RInt(yy), verts[i][2])

IsExample(name) ==
    \E sz \in CanvasSizes :
        vertices = examples(sz[1], sz[2])[name] /\ height = sz[2]

WholePixels(verts) == \A i \in 1..Len(verts) : verts[i][2].d = 1

(***************************************************************************)
(* C13: convex scenario.  For a convex polygon lying inside the viewport,  *)
(* the AET holds exactly 2 edges on every scanline on which an edge is     *)
(* active, and exactly one span is emitted on every scanline within the    *)
(* polygon's vertical extent (read here in the weakest way: the scanlines  *)
(* strictly between the lowest and the highest vertex).                    *)
(***************************************************************************)
ConvexOneSpan ==
    (Swept /\ Convex(vertices) /\ InsideViewport(vertices, height)) =>
        /\ Len(AET) \in {0, 2}
        /\ StrictlyWithinExtent(vertices, LastLine) =>
              Cardinality(SpansOn(spans, LastLine)) = 1

(***************************************************************************)
(* C14 as stated: the fill of the "Concave arrow" example has at least one *)
(* scanline carrying two spans.                                            *)
(***************************************************************************)
ArrowTwoSpans ==
    (Returned /\ IsExample("Concave arrow")) =>
        \E yy \in 0..height : Cardinality(SpansOn(spans, yy)) >= 2

(***************************************************************************)
(* C14 amended: on every scanline of the "Concave arrow" example the AET   *)
(* holds at most 3 edges (none or exactly 2 when every vertex lies on a    *)
(* scanline) and at most one span is emitted.                              *)
(***************************************************************************)
ArrowOneSpan ==
    (Swept /\ IsExample("Concave arrow")) =>
        /\ Len(AET) <= 3
        /\ WholePixels(vertices) => Len(AET) \in {0, 2}
        /\ Cardinality(SpansOn(spans, LastLine)) <= 1

ArrowOneSpanWitness ==
    /\ Returned
    /\ IsExample("Concave arrow")
    /\ Len(spans) >= 6
    /\ \E yy \in 0..height : Cardinality(SpansOn(spans, yy)) = 1

(***************************************************************************)
(* Helpers of the area property                                            *)
(***************************************************************************)
RAbs(a) == Rat(Abs(a.n), a.d)

RECURSIVE SumWidths(_, _)
SumWidths(list, k) ==
    IF k = 0 THEN RInt(0)
    ELSE RAdd(RSub(list[k][3], list[k][2]), SumWidths(list, k - 1))

\* twice the signed area (shoelace formula), summed over sides 1..k
RECURSIVE Shoelace(_, _)
Shoelace(verts, k) ==
    IF k = 0 THEN RInt(0)
    ELSE LET a == verts[k]
             b == verts[NextIndex(verts, k)]
         IN  RAdd(RSub(RMul(a[1], b[2]), RMul(b[1], a[2])), Shoelace(verts, k - 1))

TrueArea(verts) == RDiv(RAbs(Shoelace(verts, Len(verts))), RInt(2))

\* the sum of |dx| + |dy| over sides 1..k: never less than the perimeter
RECURSIVE ManhattanPerimeter(_, _)
ManhattanPerimeter(verts, k) ==
    IF k = 0 THEN RInt(0)
    ELSE LET a == verts[k]
             b == verts[NextIndex(verts, k)]
         IN  RAdd(RAdd(RAbs(RSub(a[1], b[1])), RAbs(RSub(a[2], b[2]))),
                  ManhattanPerimeter(verts, k - 1))

(***************************************************************************)
(* C15: area closure.  For a convex (hence simple) polygon inside the      *)
(* viewport the sum of the span widths differs from the polygon's area by  *)
(* at most the perimeter times one pixel; the perimeter is bounded from    *)
(* above by the sum of |dx| + |dy| over the sides.                         *)
(***************************************************************************)
AreaClosure ==
    (Returned /\ Convex(vertices) /\ InsideViewport(vertices, height)) =>
        RLeq(RAbs(RSub(SumWidths(spans, Len(spans)), TrueArea(vertices))),
             ManhattanPerimeter(vertices, Len(vertices)))

(***************************************************************************)
(* C16: canvas closing rule.  close_polygon sets closed only when the      *)
(* canvas holds at least 3 points and otherwise leaves points, closed and  *)
(* filled_spans as they are; in every state reached by clicks,             *)
(* close_polygon, fill, clear and load_example, closed implies at least 3  *)
(* points; a left click on a closed polygon adds no vertex.                *)
(***************************************************************************)
ClosingRule ==
    /\ [](closed => Len(points) >= 3)
    /\ [][/\ event' = "close_polygon" =>
                IF Len(points) >= 3
                THEN closed' /\ points' = points
                ELSE UNCHANGED <<points, closed, filled_spans>>
          /\ (event' = "left" /\ closed) => (points' = points /\ closed')
         ]_vars

ClosingRuleWitness ==
    /\ closed
    /\ event = "left"
    /\ Len(points) = 3
    /\ filled_spans # <<>>

(***************************************************************************)
(* C17: canvas fill precondition.  fill stores the spans of the polygon    *)
(* only when the polygon is closed; on an open polygon it leaves           *)
(* filled_spans, points and closed as they are; so spans are stored only   *)
(* for a closed polygon.                                                   *)
(***************************************************************************)
FillRule ==
    /\ [](filled_spans # <<>> => closed)
    /\ [][event' = "fill" =>
             IF closed
             THEN /\ filled_spans' = compute_scanline_spans(points, canvas.height).spans
                  /\ UNCHANGED <<points, closed>>
             ELSE UNCHANGED <<filled_spans, points, closed>>
         ]_vars

FillRuleWitness ==
    /\ event = "fill"
    /\ ~closed
    /\ Len(points) >= 3
    /\ filled_spans = <<>>

(***************************************************************************)
(* C18: object selection (src/trabalho_2).  After change_object, for any   *)
(* entry of the selector, current_object is a key of Scene3D.objects and   *)
(* get_object() returns an object, so paintGL's draw call is defined.      *)
(***************************************************************************)
SelectedObjectExists ==
    /\ event = "change_object" =>
          current_object \in ObjectKeys /\ get_object(current_object) # "None"
    /\ paint # "AttributeError"

(***************************************************************************)
(* C19: animation step (src/trabalho_2).  A timer timeout advances         *)
(* rotation_y by exactly 2 degrees modulo 360 while animation is on, and   *)
(* leaves it as it is while animation is off.                              *)
(***************************************************************************)
AnimationStep ==
    [][event' = "timeout" =>
          rotation_y' = IF animate THEN (rotation_y + 2) % 360 ELSE rotation_y
      ]_vars

(***************************************************************************)
(* C20: animation (src/main.py).  While animation is on, every timer       *)
(* timeout changes rotation_y.                                             *)
(***************************************************************************)
AnimationTurns ==
    [][(event' = "timeout" /\ animate) => rotation_y' # rotation_y]_vars

(***************************************************************************)
(* C21: edge lifecycle.  Every edge-table entry is appended to the AET on  *)
(* the scanline of its bucket, is in the AET on every scanline from there  *)
(* up to and including its ymax, and is in the AET on no other scanline:   *)
(* after the body of scanline LastLine the AET holds, once each, exactly   *)
(* the entries whose bucket is <= LastLine <= ymax, each advanced by one   *)
(* inv_slope per scanline it has been active.                              *)
(***************************************************************************)
\* the (bucket, position) pairs of the edge table; bucket b is ET[b + 1]
TableEntries ==
    {<<b, k>> \in (0..(Len(ET) - 1)) \X (1..Len(vertices)) : k <= Len(ET[b + 1])}

ActiveOn(yy) == {p \in TableEntries : p[1] <= yy /\ yy <= ET[p[1] + 1][p[2]].ymax}

PendingOn(yy) == {p \in TableEntries : yy < p[1]}

ExpiredOn(yy) == {p \in TableEntries : ET[p[1] + 1][p[2]].ymax < yy}

\* entry p after the x += inv_slope of scanlines bucket..yy
MovedEntry(p, yy) ==
    LET e == ET[p[1] + 1][p[2]]
    IN  [e EXCEPT !.x = RAdd(@, RMul(e.inv_slope, RInt(yy - p[1] + 1)))]

Count(list, e) == Cardinality({k \in 1..Len(list) : list[k] = e})

EdgeLifecycle ==
    Swept =>
        LET live == ActiveOn(LastLine)
        IN  /\ Len(AET) = Cardinality(live)
            /\ \A p \in live :
                  Count(AET, MovedEntry(p, LastLine)) =
                  Cardinality({q \in live : MovedEntry(q, LastLine) = MovedEntry(p, LastLine)})

EdgeLifecycleWitness ==
    /\ Swept
    /\ ActiveOn(LastLine) # {}
    /\ PendingOn(LastLine) # {}
    /\ ExpiredOn(LastLine) # {}
    /\ Len(AET) = Cardinality(ActiveOn(LastLine))

(***************************************************************************)
(* C22: half-open upper end.  No edge is in the AET on a scanline y that   *)
(* is >= the y of its upper endpoint; and at a vertex lying on scanline y  *)
(* between a side that ends there and a side that starts there (the two    *)
(* neighbours lie on opposite sides of y), exactly one of the two sides    *)
(* has its edge in the AET on scanline y.                                  *)
(***************************************************************************)
\* the edge of side i is in the AET during the pairing of scanline LastLine
SideContributes(i) ==
    /\ Swept
    /\ SideEntered(vertices, height, i)
    /\ SideStart(vertices, height, i) <= LastLine
    /\ LET e == SideEdge(vertices, height, i)
           n == LastLine - SideStart(vertices, height, i) + 1
       IN  \E k \in 1..Len(AET) :
              AET[k] = [e EXCEPT !.x = RAdd(@, RMul(e.inv_slope, RInt(n)))]

\* vertex i + 1 lies on scanline yy, strictly between its two neighbours in y
ChainVertexOn(verts, i, yy) ==
    LET j == NextIndex(verts, i)
        a == verts[i][2]
        b == verts[j][2]
        c == verts[NextIndex(verts, j)][2]
    IN  /\ b = RInt(yy)
        /\ \/ RLess(a, b) /\ RLess(b, c)
           \/ RLess(c, b) /\ RLess(b, a)

UpperEndExcluded ==
    \A i \in 1..Len(vertices) :
        SideContributes(i) => RLess(RInt(LastLine), SideOriented(vertices, i).ymax)

OneCrossingAtVertex ==
    \A i \in 1..Len(vertices) :
        (Swept /\ ChainVertexOn(vertices, i, LastLine)) =>
            (SideContributes(i) # SideContributes(NextIndex(vertices, i)))

HalfOpenUpperEnd == UpperEndExcluded /\ OneCrossingAtVertex

(***************************************************************************)
(* C23: pairing rule.  On every scanline the AET is sorted by (x,          *)
(* inv_slope) ascending and consumed as the pairs (1st, 2nd), (3rd, 4th),  *)
(* ...; the spans of the scanline are, in that order, the triples          *)
(* (y, min x, max x) of the pairs wider than 1e-6, an odd trailing edge    *)
(* giving nothing; so a scanline has at most floor(|AET| / 2) spans, in    *)
(* ascending x order, and x_right of a span is <= x_left of the next.      *)
(***************************************************************************)
\* the AET as it was when scanline LastLine was paired (before x += inv_slope)
PairedAET == [k \in 1..Len(AET) |-> [AET[k] EXCEPT !.x = RSub(@, AET[k].inv_slope)]]

PairSpan(aet, yy, k) ==
    <<yy, RMin(aet[2 * k - 1].x, aet[2 * k].x), RMax(aet[2 * k - 1].x, aet[2 * k].x)>>

PairSpans(aet, yy) ==
    SelectSeq([k \in 1..(Len(aet) \div 2) |-> PairSpan(aet, yy, k)],
              LAMBDA s : RLess(Eps, RSub(s[3], s[2])))

\* the spans of scanline yy, in list order
LineSpans(list, yy) == SelectSeq(list, LAMBDA s : s[1] = yy)

PairingRule ==
    Swept =>
        LET aet == PairedAET
            on  == LineSpans(spans, LastLine)
        IN  /\ \A k \in 1..(Len(aet) - 1) : ~KeyLess(aet[k + 1], aet[k])
            /\ on = PairSpans(aet, LastLine)
            /\ Len(on) <= Len(aet) \div 2
            /\ \A k \in 1..(Len(on) - 1) :
                  RLess(on[k][2], on[k + 1][2]) /\ RLeq(on[k][3], on[k + 1][2])

\* a scanline with four active edges and two spans
PairingRuleWitness ==
    /\ Swept
    /\ Len(AET) >= 4
    /\ Len(LineSpans(spans, LastLine)) >= 2

(***************************************************************************)
(* C24: the incremental sweep equals direct intersection.  For a polygon   *)
(* with integer vertex coordinates, none of them below the viewport        *)
(* (every vertex y <= height), on every scanline y of 0..height the x      *)
(* values of the AET at pairing time are exactly the ascending list of     *)
(* x_lo + (x_hi - x_lo) * (y - y_lo) / (y_hi - y_lo) over the sides with   *)
(* y_lo <= y < y_hi, and the spans of the scanline are the pairs of that   *)
(* list wider than 1e-6.                                                   *)
(***************************************************************************)
IntegerCoords(verts) ==
    \A i \in 1..Len(verts) : verts[i][1].d = 1 /\ verts[i][2].d = 1

NotBelow(verts, h) == \A i \in 1..Len(verts) : RLeq(verts[i][2], RInt(h))

SideLo(verts, i) ==
    IF RLess(verts[i][2], verts[NextIndex(verts, i)][2])
    THEN verts[i] ELSE verts[NextIndex(verts, i)]

SideHi(verts, i) ==
    IF RLess(verts[i][2], verts[NextIndex(verts, i)][2])
    THEN verts[NextIndex(verts, i)] ELSE verts[i]

\* side i meets scanline yy under the half-open rule y_lo <= yy < y_hi
Crosses(verts, i, yy) ==
    RLeq(SideLo(verts, i)[2], RInt(yy)) /\ RLess(RInt(yy), SideHi(verts, i)[2])

DirectX(verts, i, yy) ==
    LET lo == SideLo(verts, i)
        hi == SideHi(verts, i)
    IN  RAdd(lo[1], RDiv(RMul(RSub(hi[1], lo[1]), RSub(RInt(yy), lo[2])),
                         RSub(hi[2], lo[2])))

RECURSIVE SortX(_)
SortX(xs) ==
    IF xs = <<>> THEN <<>>
    ELSE LET m == CHOOSE k \in 1..Len(xs) : \A j \in 1..Len(xs) : RLeq(xs[k], xs[j])
         IN  <<xs[m]>> \o SortX(SubSeq(xs, 1, m - 1) \o SubSeq(xs, m + 1, Len(xs)))

\* the ascending intersections of scanline yy with the sides of the polygon
DirectXs(verts, yy) ==
    LET sides == SelectSeq([i \in 1..Len(verts) |-> i], LAMBDA i : Crosses(verts, i, yy))
    IN  SortX([k \in 1..Len(sides) |-> DirectX(verts, sides[k], yy)])

DirectSpans(verts, yy) ==
    LET xs == DirectXs(verts, yy)
    IN  SelectSeq([k \in 1..(Len(xs) \div 2) |-> <<yy, xs[2 * k - 1], xs[2 * k]>>],
                  LAMBDA s : RLess(Eps, RSub(s[3], s[2])))

WithinExtent(verts, yy) ==
    /\ \E i \in 1..Len(verts) : RLeq(verts[i][2], RInt(yy))
    /\ \E i \in 1..Len(verts) : RLess(RInt(yy), verts[i][2])

EntirelyOutside(verts, h) ==
    \/ \A i \in 1..Len(verts) : RLess(RInt(h), verts[i][2])
    \/ \A i \in 1..Len(verts) : RLess(verts[i][2], RInt(0))

SpansWithinExtent ==
    (pc \in {"sweep", "returned"} /\ IntegerCoords(vertices) /\ height >= 0) =>
        /\ \A k \in 1..Len(spans) : WithinExtent(vertices, spans[k][1])
        /\ EntirelyOutside(vertices, height) => spans = <<>>

(***************************************************************************)
(* C26: the two copies agree.  For the same vertices and height,           *)
(* build_edge_table of src/trabalho_1/GlCanvas.py returns the edge table   *)
(* that src/trab1.py builds, and its compute_scanline_spans returns the    *)
(* span list that src/trab1.py returns (and raises when it raises).        *)
(***************************************************************************)
CopiesAgree ==
    /\ Built => GlCanvas_build_edge_table(vertices, height) = [ET |-> ET, raised |-> "none"]
    /\ Returned =>
          GlCanvas_compute_scanline_spans(vertices, height) =
          [spans |-> spans, raised |-> "none"]
    /\ pc = "raised" =>
          GlCanvas_compute_scanline_spans(vertices, height) =
          [spans |-> <<>>, raised |-> raised]

\* a call that returned spans on three scanlines or more from a table in which
\* a rounded side was left out
CopiesAgreeWitness ==
    /\ Returned
    /\ Len(spans) >= 3
    /\ ~WholePixels(vertices)
    /\ \E i \in 1..Len(vertices) : ~SideEntered(vertices, height, i)
    /\ GlCanvas_compute_scanline_spans(vertices, height).spans = spans

(***************************************************************************)
(* C27: the displayed fill is never stale.  In every reachable state of    *)
(* the canvas a non-empty filled_spans implies that the polygon is closed  *)
(* and that filled_spans is what compute_scanline_spans returns for the    *)
(* current points; and every step that changes points or closed leaves     *)
(* filled_spans empty.                                                     *)
(***************************************************************************)
FillIsCurrent ==
    filled_spans # <<>> =>
        /\ closed
        /\ filled_spans = compute_scanline_spans(points, canvas.height).spans

FillNeverStale ==
    /\ []FillIsCurrent
    /\ [][(points' # points \/ closed' # closed) => filled_spans' = <<>>]_vars

\* spans on display after a stroke change that followed the fill
FillNeverStaleWitness ==
    /\ filled_spans # <<>>
    /\ event = "set_stroke_width"
    /\ stroke_width # 2

(***************************************************************************)
(* C28: orbital camera bounds (src/trabalho_2).  In every state reached by *)
(* mouse drags, wheel events, set_projection_type, toggle_comparison_mode  *)
(* and reset_view, angle_x lies in [-89, 89] and distance in [2, 20].      *)
(***************************************************************************)
CameraBounds ==
    /\ RLeq(RInt(0 - 89), camera.angle_x)
    /\ RLeq(camera.angle_x, RInt(89))
    /\ RLeq(RInt(2), camera.distance)
    /\ RLeq(camera.distance, RInt(20))

\* a drag has just been stopped at the upper limit, with the camera zoomed
\* out to the far limit
CameraBoundsWitness ==
    /\ event = "mouseMoveEvent"
    /\ camera.angle_x = RInt(89)
    /\ camera.distance = RInt(20)

(***************************************************************************)
(* C29: orbital camera horizontal angle (src/trabalho_2).  After any       *)
(* sequence of Camera.rotate calls and reset_view, angle_y lies within 0   *)
(* to 360 degrees.                                                         *)
(***************************************************************************)
AngleYInRange ==
    /\ RLeq(RInt(0), camera.angle_y)
    /\ RLeq(camera.angle_y, RInt(360))

(***************************************************************************)
(* C30: the standalone script (src/preenche.py).  In every state reached   *)
(* by mouse clicks (canvas and buttons) and Enter key presses, every       *)
(* polygon stored in the global list polygons has at least 3 vertices, so  *)
(* that the render loop fills and outlines it.                             *)
(***************************************************************************)
StoredHaveThree == \A k \in 1..Len(polygons) : Len(polygons[k]) >= 3

====
